---------------------------- MODULE Spec2Model ----------------------------
(***************************************************************************)
(* Model of the 7semi DS18B20 driver (src/src/7semi_DS18B20.cpp).          *)
(*                                                                         *)
(* The driver object holds the device registry (_devices, _addresses) and  *)
(* the strong-pullup pin number.  Everything else it touches is outside    *)
(* it: the 1-Wire bus (the OneWire object with its search position), the   *)
(* sensor's scratchpad and EEPROM, the sensor's power wiring and the level *)
(* of the strong-pullup pin.  Every public method is one action: the whole *)
(* handler is evaluated over a "world" record w that is threaded through   *)
(* the bus primitives in program order, and the trace of bus primitives of *)
(* the call is kept in  call.log.                                          *)
(***************************************************************************)
EXTENDS Integers, Sequences, FiniteSets, TLC

VARIABLES
  bus,               \* ROM addresses of the devices on the bus, in search order
  power,             \* wiring of the sensor: "external" or "parasite"
  _strongPullupPin,  \* int8_t _strongPullupPin (-1: none)
  _devices,          \* uint8_t _devices
  _addresses,        \* uint8_t _addresses[DS18B20_MAX_DEVICES][8]
  sp,                \* the sensor's scratchpad, bytes 0..7 (byte 8, the CRC, is computed on read)
  ee,                \* the sensor's EEPROM: <<TH, TL, config>>
  pullup,            \* level of the strong-pullup pin (TRUE = HIGH)
  searchPos,         \* OneWire search state: number of devices already enumerated
  alarms,            \* ROM codes of the devices whose alarm flag is set
  call               \* the last call: method, arguments, results, bus trace

vars == <<bus, power, _strongPullupPin, _devices, _addresses, sp, ee,
          pullup, searchPos, alarms, call>>

-----------------------------------------------------------------------------
(* Bounds of the model *)

\* devices on the bus (Spec)
MaxBus == 1

\* devices on the bus (SpecDiscovery): one more than the registry holds
MaxDiscover == 17

\* devices on the bus (SpecAlarm)
MaxAlarmBus == 3

(* Program constants *)
DS18B20_MAX_DEVICES == 16
CONVERT_T == 68          \* 0x44
READ_SCRATCHPAD == 190   \* 0xBE
WRITE_SCRATCHPAD == 78   \* 0x4E
COPY_SCRATCHPAD == 72    \* 0x48
RECALL_E2 == 184         \* 0xB8
READ_POWER_SUPPLY == 180 \* 0xB4
EEPROM_DELAY_MS == 11

-----------------------------------------------------------------------------
(* uint8_t arithmetic *)

Byte == 0..255

\* (uint8_t)x of an int8_t x
U8(x) == x % 256

\* (int8_t)b of a uint8_t b
I8(b) == IF b >= 128 THEN b - 256 ELSE b

\* bit k of b
Bit(b, k) == (b \div (2 ^ k)) % 2

\* b with bit k inverted
FlipBit(b, k) == IF Bit(b, k) = 1 THEN b - 2 ^ k ELSE b + 2 ^ k

NibbleXor ==
  [a \in 0..15 |-> [b \in 0..15 |->
     ((a + b) % 2)
     + 2 * (((a \div 2) + (b \div 2)) % 2)
     + 4 * (((a \div 4) + (b \div 4)) % 2)
     + 8 * (((a \div 8) + (b \div 8)) % 2)]]

\* a ^ b on uint8_t
Xor(a, b) == NibbleXor[a % 16][b % 16] + 16 * NibbleXor[a \div 16][b \div 16]

\* a & 0x60
And60(a) == ((a \div 32) % 4) * 32

\* a | 0x1F
Or1F(a) == (a \div 32) * 32 + 31

(* OneWire::crc8, the Dallas/Maxim CRC-8 (x^8 + x^5 + x^4 + 1, reflected 0x8C).  *)
(* One step of the bit loop: mix = (crc ^ inbyte) & 1; crc >>= 1;                *)
(* if (mix) crc ^= 0x8C; inbyte >>= 1.                                           *)
RECURSIVE CrcBits(_, _, _)
CrcBits(crc, inbyte, n) ==
  IF n = 0 THEN crc
  ELSE LET mix == (crc + inbyte) % 2
           sh  == crc \div 2
       IN CrcBits(IF mix = 1 THEN Xor(sh, 140) ELSE sh, inbyte \div 2, n - 1)

\* the byte-wise table of the same CRC: dscrc_table[crc ^ inbyte]
dscrc_table == [x \in Byte |-> CrcBits(x, 0, 8)]

RECURSIVE CrcFrom(_, _, _)
CrcFrom(crc, data, i) ==
  IF i > Len(data) THEN crc
  ELSE CrcFrom(dscrc_table[Xor(crc, data[i])], data, i + 1)

\* crc8(data, len): CRC-8 over the first len bytes of data
crc8(data, len) == CrcFrom(0, SubSeq(data, 1, len), 1)

-----------------------------------------------------------------------------
(* The bus and the sensor *)

\* a DS18B20 ROM code: family 0x28, serial i, CRC-8 of the first 7 bytes
Rom(i) == LET b == <<40, i, 0, 0, 0, 0, 0>> IN Append(b, crc8(b, 7))

\* the sensor whose memory the model tracks, and an address nobody answers to
SensorRom == Rom(1)
AbsentRom == Rom(0)

\* power-on contents: 85 degC, factory EEPROM TH = 75, TL = 70, 12 bit
PowerOnEE == <<75, 70, 127>>
PowerOnSP == <<80, 5, 75, 70, 127, 255, 12, 16>>

\* a disturbance of one byte on the wire during a call
\*   kind "r": the n-th oneWire.read() of the call returns its byte with one bit inverted
\*   kind "w": the device receives the n-th oneWire.write() of the call with one bit inverted
\*   kind "s": the n-th address oneWire.search() yields has one bit of byte `byte` inverted
\* (tuples <<kind, n, byte, bit>>)
NoNoise == <<"none", 0, 0, 0>>
ReadFlip(n, bit) == <<"r", n, 0, bit>>
WriteFlip(n, bit) == <<"w", n, 0, bit>>
SearchFlip(n, byte, bit) == <<"s", n, byte, bit>>
Kind(nz) == nz[1]
Nth(nz) == nz[2]
ByteOf(nz) == nz[3]
BitOf(nz) == nz[4]

\* one entry of the bus trace: <<primitive, value, address>>
Ev(e, v) == <<e, v, <<>>>>
EvA(e, a) == <<e, 0, a>>
EvOp(x) == x[1]
EvVal(x) == x[2]
EvAddr(x) == x[3]

\* temperature registers <<lsb, msb>> a conversion can produce:
\* 0xFF5E (-10.125 degC) and 0x0191 (25.0625 degC)
Cold == <<94, 255>>
Warm == <<145, 1>>

\* the world at the start of a call: the state, the protocol position of the
\* sensor, the counters of bus bytes, the disturbance nz of this call and the
\* temperature a conversion started in this call measures
WorldT(nz, t) ==
  [sp |-> sp, ee |-> ee, pullup |-> pullup, searchPos |-> searchPos, alarms |-> alarms,
   devices |-> _devices, addresses |-> _addresses,
   sel |-> FALSE, mode |-> "idle", ptr |-> 0,
   nrd |-> 0, nwr |-> 0, nsr |-> 0, v |-> 0, noise |-> nz, ambient |-> t,
   log |-> <<>>]

World(nz) == WorldT(nz, Cold)

\* the whole degrees of a temperature register <<low, high>> (its bits 11..4,
\* signed), which the sensor compares with TH and TL
TempInt(t) ==
  (IF t[2] * 256 + t[1] >= 32768 THEN t[2] * 256 + t[1] - 65536 ELSE t[2] * 256 + t[1]) \div 16

\* the alarm flags after the sensor converted t with thresholds th, tl in its
\* scratchpad: set when t >= TH or t <= TL, cleared otherwise
TheSensor == {SensorRom}

AlarmsAfter(al, t, th, tl) ==
  IF TempInt(t) >= I8(th) \/ TempInt(t) <= I8(tl)
  THEN al \cup TheSensor ELSE al \ TheSensor

\* evaluate e once and give it to F
Bind(e, F(_)) == CHOOSE y \in {F(x) : x \in {e}} : TRUE

\* oneWire.reset(): every device leaves its transaction and waits for a ROM command
reset(w0) ==
  Bind(w0, LAMBDA w :
    [w EXCEPT !.sel = FALSE, !.mode = "idle", !.ptr = 0,
              !.log = Append(@, Ev("reset", 0))])

\* oneWire.select(addr): Match ROM; only the device with that ROM code stays selected
select(w0, addr) ==
  Bind(w0, LAMBDA w :
    [w EXCEPT !.sel = (Len(bus) >= 1 /\ addr = SensorRom), !.mode = "func",
              !.ptr = 0, !.log = Append(@, EvA("select", addr))])

\* the sensor's reaction to byte b arriving in a write slot
DeviceWrite(w, b) ==
  IF ~w.sel THEN w
  ELSE IF w.mode = "func" THEN
    CASE b = CONVERT_T ->
           [w EXCEPT !.mode = "idle",
                     !.sp = [@ EXCEPT ![1] = w.ambient[1], ![2] = w.ambient[2]],
                     !.alarms = AlarmsAfter(@, w.ambient, w.sp[3], w.sp[4])]
      [] b = READ_SCRATCHPAD -> [w EXCEPT !.mode = "readsp", !.ptr = 0]
      [] b = WRITE_SCRATCHPAD -> [w EXCEPT !.mode = "writesp", !.ptr = 0]
      [] b = COPY_SCRATCHPAD ->
           [w EXCEPT !.mode = "idle", !.ee = <<w.sp[3], w.sp[4], w.sp[5]>>]
      [] b = RECALL_E2 ->
           [w EXCEPT !.mode = "idle",
                     !.sp = [@ EXCEPT ![3] = w.ee[1], ![4] = w.ee[2], ![5] = w.ee[3]]]
      [] b = READ_POWER_SUPPLY -> [w EXCEPT !.mode = "power"]
      [] OTHER -> [w EXCEPT !.mode = "idle"]
  ELSE IF w.mode = "writesp" THEN
    \* TH, TL, then the configuration register, of which only R1 R0 (bits 6, 5)
    \* are writable: the other bits keep what the device reads there (a DS18B20
    \* reads bit 7 as 0 and bits 4..0 as 1)
    [w EXCEPT !.sp = [@ EXCEPT ![3 + w.ptr] =
                        IF w.ptr = 2 THEN And60(b) + (@ - And60(@)) ELSE b],
              !.ptr = @ + 1,
              !.mode = IF w.ptr = 2 THEN "idle" ELSE "writesp"]
  ELSE w

\* oneWire.write(b): 8 write slots
write(w0, b) ==
  Bind(w0, LAMBDA w :
    Bind(DeviceWrite(w, IF Kind(w.noise) = "w" /\ Nth(w.noise) = w.nwr + 1
                        THEN FlipBit(b, BitOf(w.noise)) ELSE b),
         LAMBDA w1 : [w1 EXCEPT !.nwr = @ + 1, !.log = Append(@, Ev("write", b))]))

\* what the bus carries in the next 8 read slots: the selected sensor's
\* scratchpad byte, or its power answer in every slot (external: it leaves the
\* line high, 1; parasite: it pulls the line low, 0), or the idle line (all 1)
DeviceRead(w) ==
  IF ~w.sel THEN 255
  ELSE IF w.mode = "readsp" THEN
    IF w.ptr < 8 THEN w.sp[w.ptr + 1]
    ELSE IF w.ptr = 8 THEN crc8(w.sp, 8) ELSE 255
  ELSE IF w.mode = "power" THEN
    IF power = "external" THEN 255 ELSE 0
  ELSE 255

\* oneWire.read(): 8 read slots assembled into a byte, left in w.v
read(w0) ==
  Bind(w0, LAMBDA w :
    Bind(DeviceRead(w), LAMBDA raw :
      Bind(IF Kind(w.noise) = "r" /\ Nth(w.noise) = w.nrd + 1
           THEN FlipBit(raw, BitOf(w.noise)) ELSE raw,
           LAMBDA got :
             [w EXCEPT !.v = got, !.nrd = @ + 1, !.ptr = @ + 1,
                       !.log = Append(@, Ev("read", got))])))

\* for (i = 0; i < n; i++) buffer[i] = oneWire.read();
RECURSIVE ReadBytes(_, _, _)
ReadBytes(w0, n, buffer) ==
  IF n = 0 THEN [w |-> w0, buffer |-> buffer]
  ELSE Bind(read(w0), LAMBDA w1 : ReadBytes(w1, n - 1, Append(buffer, w1.v)))

\* oneWire.reset_search()
reset_search(w0) ==
  Bind(w0, LAMBDA w :
    [w EXCEPT !.searchPos = 0, !.log = Append(@, Ev("reset_search", 0))])

\* the bus positions a search still has to visit: every device after the
\* search position in a normal search (search_mode true, Search ROM 0xF0), only
\* those with their alarm flag set in a conditional search (false, 0xEC)
Answering(w, search_mode) ==
  {i \in (w.searchPos + 1)..Len(bus) : search_mode \/ bus[i] \in w.alarms}

\* oneWire.search(addr, search_mode): the next ROM code on the bus, or none left
\* (and then the search state starts over)
search(w0, search_mode) ==
  Bind(w0, LAMBDA w :
    IF Answering(w, search_mode) # {} THEN
      Bind(CHOOSE i \in Answering(w, search_mode) :
             \A j \in Answering(w, search_mode) : i <= j, LAMBDA at :
      Bind(IF Kind(w.noise) = "s" /\ Nth(w.noise) = w.nsr + 1
           THEN [bus[at] EXCEPT ![ByteOf(w.noise)] = FlipBit(@, BitOf(w.noise))]
           ELSE bus[at],
           LAMBDA got :
             [w |-> [w EXCEPT !.searchPos = at, !.nsr = @ + 1,
                              !.log = Append(@, EvA("search", got))],
              found |-> TRUE, addr |-> got]))
    ELSE [w |-> [w EXCEPT !.searchPos = 0, !.log = Append(@, EvA("search", <<>>))],
          found |-> FALSE, addr |-> <<>>])

\* delay(ms)
delay(w0, ms) == Bind(w0, LAMBDA w : [w EXCEPT !.log = Append(@, Ev("delay", ms))])

-----------------------------------------------------------------------------
(* The driver's methods.  Each takes the world w (and its arguments) and     *)
(* gives the world after it, with its return value and output parameters.    *)

\* _strongPullup(on)
_strongPullup(w0, on) ==
  Bind(w0, LAMBDA w :
    IF _strongPullupPin < 0 THEN w
    ELSE [w EXCEPT !.pullup = on,
                   !.log = Append(@, Ev("pullup", IF on THEN 1 ELSE 0))])

\* _conversionDelayMs whose case 11 falls through to the default
_conversionDelayMs_NoEleven(resolution) ==
  CASE resolution = 9 -> 94
    [] resolution = 10 -> 188
    [] OTHER -> 750

\* _conversionDelayMs(resolution)
_conversionDelayMs(resolution) ==
  CASE resolution = 9 -> 94
    [] resolution = 10 -> 188
    [] resolution = 11 -> 375
    [] resolution = 12 -> 750
    [] OTHER -> 750

\* readScratchpad with the CRC taken over one byte too few
readScratchpad_ShortCrc(w, addr) ==
  Bind(ReadBytes(write(select(reset(w), addr), READ_SCRATCHPAD), 9, <<>>), LAMBDA r :
    Bind(crc8(r.buffer, 7), LAMBDA crcCalculated :
      [w |-> r.w, buffer |-> r.buffer,
       ret |-> IF crcCalculated # r.buffer[9] THEN FALSE ELSE TRUE]))

\* readScratchpad(addr, buffer)
readScratchpad(w, addr) ==
  Bind(ReadBytes(write(select(reset(w), addr), READ_SCRATCHPAD), 9, <<>>), LAMBDA r :
    Bind(crc8(r.buffer, 8), LAMBDA crcCalculated :
      [w |-> r.w, buffer |-> r.buffer,
       ret |-> IF crcCalculated # r.buffer[9] THEN FALSE ELSE TRUE]))

\* writeScratchpad that trusts any CRC-valid readback
writeScratchpad_NoCompare(w, addr, th, tl, config) ==
  Bind(readScratchpad(
         write(write(write(write(select(reset(w), addr), WRITE_SCRATCHPAD),
                           U8(th)), U8(tl)), config), addr),
       LAMBDA r : [w |-> r.w, ret |-> IF ~r.ret THEN FALSE ELSE TRUE])

\* writeScratchpad(addr, th, tl, config): th, tl are int8_t, config is uint8_t
writeScratchpad(w, addr, th, tl, config) ==
  Bind(readScratchpad(
         write(write(write(write(select(reset(w), addr), WRITE_SCRATCHPAD),
                           U8(th)), U8(tl)), config), addr),
       LAMBDA r :
         [w |-> r.w,
          ret |-> IF ~r.ret THEN FALSE
                  ELSE IF r.buffer[3] # U8(th) \/ r.buffer[4] # U8(tl)
                          \/ r.buffer[5] # config THEN FALSE
                  ELSE TRUE])

\* readPowerSupply(addr, externalPowered)
readPowerSupply(w, addr) ==
  Bind(read(write(select(reset(w), addr), READ_POWER_SUPPLY)), LAMBDA w1 :
    [w |-> w1, externalPowered |-> (w1.v = 1), ret |-> TRUE])

\* isParasitePower(addr)
isParasitePower(w, addr) ==
  Bind(readPowerSupply(w, addr), LAMBDA p :
    [w |-> p.w, ret |-> IF ~p.ret THEN FALSE ELSE ~p.externalPowered])

\* copyScratchpad that leaves the strong pullup asserted after the EEPROM delay
copyScratchpad_PullupLeftOn(w, addr) ==
  Bind(readPowerSupply(write(select(reset(w), addr), COPY_SCRATCHPAD), addr), LAMBDA p :
    Bind(~p.externalPowered /\ _strongPullupPin >= 0, LAMBDA assist :
      Bind(IF assist THEN _strongPullup(p.w, TRUE) ELSE p.w, LAMBDA w2 :
        [w |-> delay(w2, EEPROM_DELAY_MS), ret |-> TRUE])))

\* copyScratchpad(addr)
copyScratchpad(w, addr) ==
  Bind(readPowerSupply(write(select(reset(w), addr), COPY_SCRATCHPAD), addr), LAMBDA p :
    Bind(~p.externalPowered /\ _strongPullupPin >= 0, LAMBDA assist :
      Bind(IF assist THEN _strongPullup(p.w, TRUE) ELSE p.w, LAMBDA w2 :
        Bind(delay(w2, EEPROM_DELAY_MS), LAMBDA w3 :
          [w |-> IF assist THEN _strongPullup(w3, FALSE) ELSE w3, ret |-> TRUE]))))

\* recallE2 that addresses the sensor without a reset first
recallE2_NoReset(w, addr) ==
  Bind(readScratchpad(write(select(w, addr), RECALL_E2), addr), LAMBDA r :
    [w |-> r.w, ret |-> r.ret])

\* recallE2(addr)
recallE2(w, addr) ==
  Bind(readScratchpad(write(select(reset(w), addr), RECALL_E2), addr), LAMBDA r :
    [w |-> r.w, ret |-> r.ret])

\* getResolution that compares the whole configuration byte
getResolution_WholeByte(w, addr) ==
  Bind(readScratchpad(w, addr), LAMBDA s :
    Bind(s.buffer[5], LAMBDA r :
      [w |-> s.w,
       ret |-> IF ~s.ret THEN 0
               ELSE IF r = 31 THEN 9
               ELSE IF r = 63 THEN 10
               ELSE IF r = 95 THEN 11
               ELSE IF r = 127 THEN 12
               ELSE 12]))

\* getResolution(addr)
getResolution(w, addr) ==
  Bind(readScratchpad(w, addr), LAMBDA s :
    Bind(And60(s.buffer[5]), LAMBDA r :
      [w |-> s.w,
       ret |-> IF ~s.ret THEN 0
               ELSE IF r = 0 THEN 9
               ELSE IF r = 32 THEN 10
               ELSE IF r = 64 THEN 11
               ELSE IF r = 96 THEN 12
               ELSE 12]))

\* the switch of setResolution with the cases of 10 and 11 exchanged
rbits_Swapped(resolution) ==
  CASE resolution = 9 -> 0
    [] resolution = 10 -> 64
    [] resolution = 11 -> 32
    [] resolution = 12 -> 96
    [] OTHER -> 0

\* the switch of setResolution: R1 R0 at bits 6:5
rbits(resolution) ==
  CASE resolution = 9 -> 0
    [] resolution = 10 -> 32
    [] resolution = 11 -> 64
    [] resolution = 12 -> 96
    [] OTHER -> 0

\* setResolution with a range check that lets 8 through
setResolution_From8(w, addr, resolution, persistToEeprom) ==
  IF resolution < 8 \/ resolution > 12 THEN [w |-> w, ret |-> FALSE]
  ELSE
    Bind(readScratchpad(w, addr), LAMBDA s :
      IF ~s.ret THEN [w |-> s.w, ret |-> FALSE]
      ELSE
        Bind(writeScratchpad(s.w, addr, I8(s.buffer[3]), I8(s.buffer[4]),
                             Or1F(rbits(resolution))),
             LAMBDA wr :
               IF ~wr.ret THEN [w |-> wr.w, ret |-> FALSE]
               ELSE IF persistToEeprom THEN
                 Bind(copyScratchpad(wr.w, addr), LAMBDA cp :
                   IF ~cp.ret THEN [w |-> cp.w, ret |-> FALSE]
                   ELSE [w |-> cp.w, ret |-> TRUE])
               ELSE [w |-> wr.w, ret |-> TRUE]))

\* setResolution(addr, resolution, persistToEeprom)
setResolution(w, addr, resolution, persistToEeprom) ==
  IF resolution < 9 \/ resolution > 12 THEN [w |-> w, ret |-> FALSE]
  ELSE
    Bind(readScratchpad(w, addr), LAMBDA s :
      IF ~s.ret THEN [w |-> s.w, ret |-> FALSE]
      ELSE
        Bind(writeScratchpad(s.w, addr, I8(s.buffer[3]), I8(s.buffer[4]),
                             Or1F(rbits(resolution))),
             LAMBDA wr :
               IF ~wr.ret THEN [w |-> wr.w, ret |-> FALSE]
               ELSE IF persistToEeprom THEN
                 Bind(copyScratchpad(wr.w, addr), LAMBDA cp :
                   IF ~cp.ret THEN [w |-> cp.w, ret |-> FALSE]
                   ELSE [w |-> cp.w, ret |-> TRUE])
               ELSE [w |-> wr.w, ret |-> TRUE]))

\* setAlarms that writes the power-on configuration instead of the one it read
setAlarms_DefaultCfg(w, addr, th, tl, persistToEeprom) ==
  Bind(readScratchpad(w, addr), LAMBDA s :
    IF ~s.ret THEN [w |-> s.w, ret |-> FALSE]
    ELSE
      Bind(writeScratchpad(s.w, addr, th, tl, PowerOnSP[5]), LAMBDA wr :
        IF ~wr.ret THEN [w |-> wr.w, ret |-> FALSE]
        ELSE IF persistToEeprom THEN
          Bind(copyScratchpad(wr.w, addr), LAMBDA cp : [w |-> cp.w, ret |-> cp.ret])
        ELSE [w |-> wr.w, ret |-> TRUE]))

\* setAlarms(addr, th, tl, persistToEeprom)
setAlarms(w, addr, th, tl, persistToEeprom) ==
  Bind(readScratchpad(w, addr), LAMBDA s :
    IF ~s.ret THEN [w |-> s.w, ret |-> FALSE]
    ELSE
      Bind(writeScratchpad(s.w, addr, th, tl, s.buffer[5]), LAMBDA wr :
        IF ~wr.ret THEN [w |-> wr.w, ret |-> FALSE]
        ELSE IF persistToEeprom THEN
          Bind(copyScratchpad(wr.w, addr), LAMBDA cp : [w |-> cp.w, ret |-> cp.ret])
        ELSE [w |-> wr.w, ret |-> TRUE]))

\* getAlarms that recalls the EEPROM before it reads
getAlarms_Recalling(w, addr) ==
  Bind(readScratchpad(write(select(reset(w), addr), RECALL_E2), addr), LAMBDA s :
    IF ~s.ret THEN [w |-> s.w, ret |-> FALSE, set |-> FALSE, th |-> 0, tl |-> 0]
    ELSE [w |-> s.w, ret |-> TRUE, set |-> TRUE,
          th |-> I8(s.buffer[3]), tl |-> I8(s.buffer[4])])

\* getAlarms without the conversion of the register bytes to int8_t
getAlarms_Unsigned(w, addr) ==
  Bind(readScratchpad(w, addr), LAMBDA s :
    IF ~s.ret THEN [w |-> s.w, ret |-> FALSE, set |-> FALSE, th |-> 0, tl |-> 0]
    ELSE [w |-> s.w, ret |-> TRUE, set |-> TRUE, th |-> s.buffer[3], tl |-> s.buffer[4]])

\* getAlarms(addr, th, tl): th and tl are written only on success
getAlarms(w, addr) ==
  Bind(readScratchpad(w, addr), LAMBDA s :
    IF ~s.ret THEN [w |-> s.w, ret |-> FALSE, set |-> FALSE, th |-> 0, tl |-> 0]
    ELSE [w |-> s.w, ret |-> TRUE, set |-> TRUE,
          th |-> I8(s.buffer[3]), tl |-> I8(s.buffer[4])])

\* the register bytes put together without the conversion to int16_t
Raw16_Unsigned(scratch) == scratch[2] * 256 + scratch[1]

\* (int16_t)((scratch[1] << 8) | scratch[0])
Raw16(scratch) ==
  IF scratch[2] * 256 + scratch[1] >= 32768
  THEN scratch[2] * 256 + scratch[1] - 65536
  ELSE scratch[2] * 256 + scratch[1]

\* readRawTemperature(addr, raw): raw is written only on success
readRawTemperature(w, addr) ==
  Bind(readScratchpad(w, addr), LAMBDA s :
    IF ~s.ret THEN [w |-> s.w, ret |-> FALSE, set |-> FALSE, raw |-> 0]
    ELSE [w |-> s.w, ret |-> TRUE, set |-> TRUE, raw |-> Raw16(s.buffer)])

\* readTemperature that leaves the strong pullup on after the wait
readTemperature_PullupLeftOn(w, addr) ==
  Bind(getResolution(write(select(reset(w), addr), CONVERT_T), addr), LAMBDA g :
    Bind(IF g.ret < 9 \/ g.ret > 12 THEN 12 ELSE g.ret, LAMBDA res :
      Bind(readPowerSupply(g.w, addr), LAMBDA p :
        Bind(p.ret /\ ~p.externalPowered /\ _strongPullupPin >= 0, LAMBDA assist :
          Bind(IF assist THEN _strongPullup(p.w, TRUE) ELSE p.w, LAMBDA w2 :
            Bind(delay(w2, _conversionDelayMs(res)), LAMBDA w3 :
              Bind(readScratchpad(w3, addr), LAMBDA s :
                IF ~s.ret THEN [w |-> s.w, nan |-> TRUE, x16 |-> 0]
                ELSE [w |-> s.w, nan |-> FALSE, x16 |-> Raw16(s.buffer)])))))))

\* readTemperature(addr): the float result is kept as NaN or as raw sixteenths
\* of a degree (raw / 16.0f is exact in a float)
readTemperature(w, addr) ==
  Bind(getResolution(write(select(reset(w), addr), CONVERT_T), addr), LAMBDA g :
    Bind(IF g.ret < 9 \/ g.ret > 12 THEN 12 ELSE g.ret, LAMBDA res :
      Bind(readPowerSupply(g.w, addr), LAMBDA p :
        Bind(p.ret /\ ~p.externalPowered /\ _strongPullupPin >= 0, LAMBDA assist :
          Bind(IF assist THEN _strongPullup(p.w, TRUE) ELSE p.w, LAMBDA w2 :
            Bind(delay(w2, _conversionDelayMs(res)), LAMBDA w3 :
              Bind(readScratchpad(IF assist THEN _strongPullup(w3, FALSE) ELSE w3, addr),
                   LAMBDA s :
                     IF ~s.ret THEN [w |-> s.w, nan |-> TRUE, x16 |-> 0]
                     ELSE [w |-> s.w, nan |-> FALSE, x16 |-> Raw16(s.buffer)])))))))

\* memcpy(_addresses[index], addr, 8): the row written is kept in the trace;
\* a row past the end of the table is memory that is not the table's
memcpy(w0, index, addr) ==
  Bind(w0, LAMBDA w :
    [w EXCEPT !.addresses = IF index \in DOMAIN @ THEN [@ EXCEPT ![index] = addr] ELSE @,
              !.log = Append(@, Ev("store", index))])

\* the while loop of searchDevices() with a capacity test that is off by one
RECURSIVE SearchLoop_OverCapacity(_)
SearchLoop_OverCapacity(w) ==
  Bind(search(w, TRUE), LAMBDA s :
    IF ~s.found THEN s.w
    ELSE IF s.w.devices <= DS18B20_MAX_DEVICES THEN
      Bind(memcpy(s.w, s.w.devices, s.addr), LAMBDA w1 :
        IF crc8(s.addr, 7) # s.addr[8] THEN SearchLoop_OverCapacity(w1)
        ELSE SearchLoop_OverCapacity([w1 EXCEPT !.devices = @ + 1]))
    ELSE s.w)

\* the while loop of searchDevices() without the CRC check: every address counts
RECURSIVE SearchLoop_CountAll(_)
SearchLoop_CountAll(w) ==
  Bind(search(w, TRUE), LAMBDA s :
    IF ~s.found THEN s.w
    ELSE IF s.w.devices < DS18B20_MAX_DEVICES THEN
      SearchLoop_CountAll([memcpy(s.w, s.w.devices, s.addr) EXCEPT !.devices = @ + 1])
    ELSE s.w)

\* the while loop of searchDevices()
RECURSIVE SearchLoop(_)
SearchLoop(w) ==
  Bind(search(w, TRUE), LAMBDA s :
    IF ~s.found THEN s.w
    ELSE IF s.w.devices < DS18B20_MAX_DEVICES THEN
      Bind(memcpy(s.w, s.w.devices, s.addr), LAMBDA w1 :
        IF crc8(s.addr, 7) # s.addr[8] THEN SearchLoop(w1)
        ELSE SearchLoop([w1 EXCEPT !.devices = @ + 1]))
    ELSE s.w)

\* searchDevices()
searchDevices(w) ==
  Bind(reset_search(SearchLoop([reset_search(w) EXCEPT !.devices = 0])), LAMBDA w2 :
    [w |-> w2, ret |-> w2.devices])

\* begin()
begin(w) ==
  Bind(searchDevices(reset_search(w)), LAMBDA s :
    [w |-> [s.w EXCEPT !.devices = s.ret], ret |-> (s.ret > 0)])

\* getAddress with a bound test that lets index == _devices through
getAddress_OffByOne(w0, index) ==
  Bind(w0, LAMBDA w :
    IF index > w.devices THEN [w |-> w, ret |-> FALSE, addr |-> <<>>]
    ELSE [w |-> w, ret |-> TRUE, addr |-> w.addresses[index]])

\* getAddress(index, addr): addr is written only on success
getAddress(w0, index) ==
  Bind(w0, LAMBDA w :
    IF index >= w.devices THEN [w |-> w, ret |-> FALSE, addr |-> <<>>]
    ELSE [w |-> w, ret |-> TRUE, addr |-> w.addresses[index]])

\* alarmSearch(foundAddr)
alarmSearch(w) ==
  Bind(search(reset_search(w), TRUE), LAMBDA s1 :
    IF ~s1.found THEN [w |-> s1.w, ret |-> FALSE, addr |-> s1.addr]
    ELSE
      Bind(search(reset_search(s1.w), TRUE), LAMBDA s2 :
        IF ~s2.found THEN [w |-> s2.w, ret |-> FALSE, addr |-> s1.addr]
        ELSE IF crc8(s2.addr, 7) # s2.addr[8]
          THEN [w |-> s2.w, ret |-> FALSE, addr |-> s2.addr]
        ELSE [w |-> s2.w, ret |-> TRUE, addr |-> s2.addr]))

-----------------------------------------------------------------------------
(* The caller: a single thread that calls one method at a time and takes its *)
(* result before it calls the next.                                          *)

Idle == [op |-> "idle"]

\* what a call leaves behind
Commit(w, c) ==
  /\ sp' = w.sp /\ ee' = w.ee /\ pullup' = w.pullup /\ searchPos' = w.searchPos
  /\ alarms' = w.alarms
  /\ _devices' = w.devices /\ _addresses' = w.addresses
  /\ call' = [c EXCEPT !.log = w.log]
  /\ UNCHANGED <<bus, power, _strongPullupPin>>

\* the record of a call on a device address
Called(op, addr, arg, nz, ret, out) ==
  [op |-> op, addr |-> addr, arg |-> arg, noise |-> nz, ret |-> ret, out |-> out,
   log |-> <<>>]

\* the caller has taken the result
Return ==
  /\ call # Idle
  /\ call' = Idle
  /\ UNCHANGED <<bus, power, _strongPullupPin, _devices, _addresses, sp, ee,
                 pullup, searchPos, alarms>>

(* Inputs.  A specification chooses the sets its actions draw from.          *)
Targets == {SensorRom, AbsentRom}

\* the undisturbed bus, and no disturbance to choose from
Quiet == {NoNoise}
NoFlips == {}

\* every single-bit error in the n0+1 .. n0+9-th byte read (one scratchpad frame)
FrameFlips(n0) == {ReadFlip(n0 + i, b) : i \in 1..9, b \in 0..7}

\* an error in the configuration byte or in the CRC byte of that frame
CoarseFlips(n0) == {ReadFlip(n0 + 5, 5), ReadFlip(n0 + 9, 0)}

\* an error in the one byte readPowerSupply reads, when it is the n-th
PowerFlips(n) == {ReadFlip(n, 0)}

\* noise happens on a bus with the sensor on it
Noisy(addr, flips) == IF addr = SensorRom THEN Quiet \cup flips ELSE Quiet

ReadScratchpad(Flips) ==
  /\ call = Idle
  /\ \E addr \in Targets : \E nz \in Noisy(addr, Flips) :
       \E r \in {readScratchpad(World(nz), addr)} :
          Commit(r.w, Called("readScratchpad", addr, <<>>, nz, r.ret, r.buffer))

WriteScratchpad(Pairs, Cfgs, Flips) ==
  /\ call = Idle
  /\ \E addr \in Targets, p \in Pairs, config \in Cfgs :
       \E nz \in Noisy(addr, Flips) :
         \E r \in {writeScratchpad(World(nz), addr, p[1], p[2], config)} :
            Commit(r.w, Called("writeScratchpad", addr, <<p[1], p[2], config>>, nz, r.ret, <<>>))

CopyScratchpad ==
  /\ call = Idle
  /\ \E addr \in Targets : \E nz \in Noisy(addr, PowerFlips(1)) :
       \E r \in {copyScratchpad(World(nz), addr)} :
          Commit(r.w, Called("copyScratchpad", addr, <<>>, nz, r.ret, <<>>))

RecallE2 ==
  /\ call = Idle
  /\ \E addr \in Targets : \E nz \in Noisy(addr, CoarseFlips(0)) :
       \E r \in {recallE2(World(nz), addr)} :
          Commit(r.w, Called("recallE2", addr, <<>>, nz, r.ret, <<>>))

ReadPowerSupply ==
  /\ call = Idle
  /\ \E addr \in Targets : \E nz \in Noisy(addr, PowerFlips(1)) :
       \E r \in {readPowerSupply(World(nz), addr)} :
          Commit(r.w, Called("readPowerSupply", addr, <<>>, nz, r.ret, r.externalPowered))

IsParasitePower ==
  /\ call = Idle
  /\ \E addr \in Targets : \E nz \in Noisy(addr, PowerFlips(1)) :
       \E r \in {isParasitePower(World(nz), addr)} :
          Commit(r.w, Called("isParasitePower", addr, <<>>, nz, r.ret, <<>>))

GetResolution(Flips) ==
  /\ call = Idle
  /\ \E addr \in Targets : \E nz \in Noisy(addr, Flips) :
       \E r \in {getResolution(World(nz), addr)} :
          Commit(r.w, Called("getResolution", addr, <<>>, nz, r.ret, <<>>))

SetResolution(Ress, Persists, Flips) ==
  /\ call = Idle
  /\ \E addr \in Targets, resolution \in Ress, persistToEeprom \in Persists :
       \E nz \in Noisy(addr, Flips) :
         \E r \in {setResolution(World(nz), addr, resolution, persistToEeprom)} :
            Commit(r.w, Called("setResolution", addr, <<resolution, persistToEeprom>>,
                               nz, r.ret, <<>>))

GetAlarms(Flips) ==
  /\ call = Idle
  /\ \E addr \in Targets : \E nz \in Noisy(addr, Flips) :
       \E r \in {getAlarms(World(nz), addr)} :
          Commit(r.w, Called("getAlarms", addr, <<>>, nz, r.ret,
                             [set |-> r.set, th |-> r.th, tl |-> r.tl]))

SetAlarms(Pairs, Persists, Flips) ==
  /\ call = Idle
  /\ \E addr \in Targets, p \in Pairs, persistToEeprom \in Persists :
       \E nz \in Noisy(addr, Flips) :
         \E r \in {setAlarms(World(nz), addr, p[1], p[2], persistToEeprom)} :
            Commit(r.w, Called("setAlarms", addr, <<p[1], p[2], persistToEeprom>>,
                               nz, r.ret, <<>>))

ReadRawTemperature(Flips) ==
  /\ call = Idle
  /\ \E addr \in Targets : \E nz \in Noisy(addr, Flips) :
       \E r \in {readRawTemperature(World(nz), addr)} :
          Commit(r.w, Called("readRawTemperature", addr, <<>>, nz, r.ret,
                             [set |-> r.set, raw |-> r.raw]))

ReadTemperature(Temps, Flips) ==
  /\ call = Idle
  /\ \E addr \in Targets, t \in Temps :
       \E nz \in Noisy(addr, Flips) :
         \E r \in {readTemperature(WorldT(nz, t), addr)} :
            Commit(r.w, Called("readTemperature", addr, <<>>, nz,
                               [nan |-> r.nan, x16 |-> r.x16], <<>>))

SearchDevices(Flips) ==
  /\ call = Idle
  /\ \E nz \in Quiet \cup Flips :
       \E r \in {searchDevices(World(nz))} :
          Commit(r.w, Called("searchDevices", <<>>, <<>>, nz, r.ret, <<>>))

Begin(Flips) ==
  /\ call = Idle
  /\ \E nz \in Quiet \cup Flips :
       \E r \in {begin(World(nz))} :
          Commit(r.w, Called("begin", <<>>, <<>>, nz, r.ret, <<>>))

GetAddress(Indexes) ==
  /\ call = Idle
  /\ \E index \in Indexes :
       \E r \in {getAddress(World(NoNoise), index)} :
          Commit(r.w, Called("getAddress", <<>>, <<index>>, NoNoise, r.ret, r.addr))

AlarmSearch(Flips) ==
  /\ call = Idle
  /\ \E nz \in Quiet \cup Flips :
       \E r \in {alarmSearch(World(nz))} :
          Commit(r.w, Called("alarmSearch", <<>>, <<>>, nz, r.ret, r.addr))

\* DS18B20_7semi(dataPin, strongPullupPin) on a bus holding the first n sensors,
\* the tracked sensor's scratchpad holding s, its supply wired as pw
Constructed(n, s, pw, pin) ==
  /\ bus = [i \in 1..n |-> Rom(i)]
  /\ power = pw
  /\ _strongPullupPin = pin
  /\ _devices = 0
  /\ _addresses = [i \in 0..(DS18B20_MAX_DEVICES - 1) |-> <<>>]
  /\ sp = s
  /\ ee = PowerOnEE
  /\ pullup = FALSE
  /\ searchPos = 0
  /\ alarms = {}
  /\ call = Idle

Powers == {"external", "parasite"}
Pins == {-1, 5}

-----------------------------------------------------------------------------
(* Spec: the whole driver on a small bus, every method, sensor at power-on *)

Init ==
  \E n \in 0..MaxBus, pw \in Powers, pin \in Pins : Constructed(n, PowerOnSP, pw, pin)

TwoFrames == CoarseFlips(0) \cup CoarseFlips(9)

\* an error in the first frame a call reads
FirstFrame == CoarseFlips(0)

\* an error in the CRC byte of the first, of the second ROM code a search yields
FirstRomFlip == {SearchFlip(1, 8, 0)}
SecondRomFlip == {SearchFlip(2, 8, 0)}

\* for readTemperature: an error in the frame of its getResolution, in the
\* byte of its power query, in the frame it decodes
TempFlips == CoarseFlips(0) \cup PowerFlips(10) \cup CoarseFlips(10)

\* arguments of the methods
Indexes == 0..MaxBus
ColdOnly == {Cold}
ResArgs == {8, 9, 12, 13}
Persist == BOOLEAN
NoPersist == {FALSE}
ExtremeAlarms == {<<-128, 127>>}
CfgArgs == {0, 127}

Next ==
  \/ Begin(FirstRomFlip)
  \/ SearchDevices(FirstRomFlip)
  \/ GetAddress(Indexes)
  \/ AlarmSearch(SecondRomFlip)
  \/ ReadTemperature(ColdOnly, TempFlips)
  \/ ReadRawTemperature(FirstFrame)
  \/ SetResolution(ResArgs, Persist, TwoFrames)
  \/ GetResolution(FirstFrame)
  \/ SetAlarms(ExtremeAlarms, Persist, TwoFrames)
  \/ GetAlarms(FirstFrame)
  \/ IsParasitePower
  \/ ReadPowerSupply
  \/ ReadScratchpad(FirstFrame)
  \/ WriteScratchpad(ExtremeAlarms, CfgArgs, FirstFrame)
  \/ CopyScratchpad
  \/ RecallE2
  \/ Return

Spec == Init /\ [][Next]_vars

-----------------------------------------------------------------------------
(* SpecScratch: the scratchpad accessors on one sensor, under every single-bit *)
(* error of a frame read, with thresholds over the int8_t range, and with     *)
(* errors in the bytes written                                                *)

AlarmVals == {-128, -127, -64, -1, 0, 1, 64, 126, 127}

\* an error in the TH byte or the TL byte as the device receives it
\* (the 2nd and 3rd byte writeScratchpad writes)
DataWriteFlips == {WriteFlip(2, 0), WriteFlip(3, 7)}

EveryFlip == FrameFlips(0)
ScratchFlips == CoarseFlips(0) \cup DataWriteFlips
ScratchPairs == {<<-128, 127>>, <<1, -1>>}
ScratchCfgs == {0, 31, 127, 255}
AlarmPairs == AlarmVals \X AlarmVals

InitScratch == Constructed(1, PowerOnSP, "external", -1)

NextScratch ==
  \/ ReadScratchpad(EveryFlip)
  \/ WriteScratchpad(ScratchPairs, ScratchCfgs, ScratchFlips)
  \/ SetAlarms(AlarmPairs, NoPersist, NoFlips)
  \/ GetAlarms(FirstFrame)
  \/ Return

SpecScratch == InitScratch /\ [][NextScratch]_vars

-----------------------------------------------------------------------------
(* SpecCfg: resolution handling on a sensor whose configuration register     *)
(* reads any byte (other members of the family and clones read other values *)
(* than a DS18B20 in the bits that are not R1 R0)                            *)

InitCfg ==
  \E c \in Byte, pw \in Powers :
    Constructed(1, [PowerOnSP EXCEPT ![5] = c], pw, 5)

AllRes == 8..13

NextCfg ==
  \/ GetResolution(FirstFrame)
  \/ SetResolution(AllRes, NoPersist, NoFlips)
  \/ ReadTemperature(ColdOnly, FirstFrame)
  \/ Return

SpecCfg == InitCfg /\ [][NextCfg]_vars

-----------------------------------------------------------------------------
(* SpecDiscovery: the registry on buses of up to MaxDiscover devices, with   *)
(* an error in any one address found                                         *)

InitDiscovery == \E n \in 0..MaxDiscover : Constructed(n, PowerOnSP, "external", -1)

DiscoveryFlips ==
  {SearchFlip(n, byte, 0) : n \in {1, 2, DS18B20_MAX_DEVICES, MaxDiscover}, byte \in {1, 8}}

DiscoveryIndexes == {0, MaxDiscover - 1}

NextDiscovery ==
  \/ Begin(DiscoveryFlips)
  \/ SearchDevices(DiscoveryFlips)
  \/ GetAddress(DiscoveryIndexes)
  \/ AlarmSearch(SecondRomFlip)
  \/ Return

SpecDiscovery == InitDiscovery /\ [][NextDiscovery]_vars

-----------------------------------------------------------------------------
(* SpecAlarm: alarm search on buses of up to MaxAlarmBus devices, any of     *)
(* which may have its alarm flag set; conversions and threshold writes set   *)
(* and clear the flag of the tracked sensor                                  *)

InitAlarm ==
  \E n \in 0..MaxAlarmBus : \E al \in SUBSET {Rom(i) : i \in 1..n} :
    /\ bus = [i \in 1..n |-> Rom(i)]
    /\ power = "external"
    /\ _strongPullupPin = -1
    /\ _devices = 0
    /\ _addresses = [i \in 0..(DS18B20_MAX_DEVICES - 1) |-> <<>>]
    /\ sp = PowerOnSP
    /\ ee = PowerOnEE
    /\ pullup = FALSE
    /\ searchPos = 0
    /\ alarms = al
    /\ call = Idle

AlarmFlips == FirstRomFlip \cup SecondRomFlip
BothTemps == {Cold, Warm}
WideOrEmptyBand == {<<127, -128>>, <<-128, 127>>}

NextAlarm ==
  \/ AlarmSearch(AlarmFlips)
  \/ SearchDevices(NoFlips)
  \/ ReadTemperature(BothTemps, NoFlips)
  \/ SetAlarms(WideOrEmptyBand, NoPersist, NoFlips)
  \/ Return

SpecAlarm == InitAlarm /\ [][NextAlarm]_vars

-----------------------------------------------------------------------------
(* SpecTemp: temperature reads on one sensor whose temperature register      *)
(* holds values on both sides of zero and at the ends of the 16-bit range,   *)
(* under every single-bit error of the frame read                            *)

\* temperature registers <<low, high>>: 0, 25.0625, -10.125, 85, 125, -55 degC
\* and the ends of the int16_t range
TempRegs ==
  {<<0, 0>>, Warm, Cold, <<80, 5>>, <<208, 7>>, <<144, 252>>,
   <<255, 127>>, <<0, 128>>, <<255, 255>>}

InitTemp ==
  \E t \in TempRegs, pw \in Powers :
    Constructed(1, [PowerOnSP EXCEPT ![1] = t[1], ![2] = t[2]], pw, 5)

DecodedFrame == CoarseFlips(10)

NextTemp ==
  \/ ReadRawTemperature(EveryFlip)
  \/ ReadTemperature(TempRegs, DecodedFrame)
  \/ Return

SpecTemp == InitTemp /\ [][NextTemp]_vars

-----------------------------------------------------------------------------
(* Reading a call's bus trace *)

\* the bytes the bus returned to the call, in order
ReadVals(log) ==
  LET rd == SelectSeq(log, LAMBDA x : EvOp(x) = "read")
  IN [i \in 1..Len(rd) |-> EvVal(rd[i])]

\* the entries of the trace that are primitive e
Events(log, e) == SelectSeq(log, LAMBDA x : EvOp(x) = e)

\* the primitives of the trace, by name
Shape(log) == [i \in 1..Len(log) |-> EvOp(log[i])]

\* CRC-8 by the bit loop alone, over the whole of data
RECURSIVE Crc8Loop(_, _, _)
Crc8Loop(crc, data, i) ==
  IF i > Len(data) THEN crc
  ELSE Bind(CrcBits(crc, data[i], 8), LAMBDA c : Crc8Loop(c, data, i + 1))

\* a frame of n bytes whose last byte is the CRC-8 of the ones before it
CrcValid(frame, n) ==
  Len(frame) >= n /\ Crc8Loop(0, SubSeq(frame, 1, n - 1), 1) = frame[n]

-----------------------------------------------------------------------------
(* C1: readScratchpad reports success exactly when the CRC-8 of the first 8  *)
(* bytes the bus returned equals the 9th byte it returned; a single inverted *)
(* bit in any of the first 8 bytes of the sensor's (CRC-valid) frame makes  *)
(* it report failure.                                                        *)
ScratchpadReadChecksCrc ==
  call.op = "readScratchpad" =>
    LET rd == ReadVals(call.log)
    IN /\ Len(rd) = 9
       /\ call.out = rd
       /\ (call.ret = TRUE) <=> CrcValid(rd, 9)
       /\ (call.addr = SensorRom /\ Kind(call.noise) = "r" /\ Nth(call.noise) <= 8)
            => call.ret = FALSE

\* a frame of the sensor with bit 3 of its 5th byte inverted was rejected
ScratchpadBitFlipRejected ==
  /\ call.op = "readScratchpad"
  /\ call.addr = SensorRom
  /\ call.noise = ReadFlip(5, 3)
  /\ call.out[5] = FlipBit(sp[5], 3)
  /\ call.ret = FALSE

-----------------------------------------------------------------------------
\* the operations that rebuild the registry
Discoveries == {"begin", "searchDevices"}

\* the operations that query the sensor's supply
PowerQueries == {"readPowerSupply", "isParasitePower"}

\* the rows of a full address table, in the order discovery fills them
AllRows == [i \in 1..DS18B20_MAX_DEVICES |-> i - 1]

\* the ROM codes the search primitive yielded to the call, in order
Yielded(log) ==
  LET sr == SelectSeq(log, LAMBDA x : EvOp(x) = "search" /\ EvAddr(x) # <<>>)
  IN [i \in 1..Len(sr) |-> EvAddr(sr[i])]

\* an 8-byte ROM code whose byte 7 is the CRC-8 of its bytes 0..6
ValidRom(a) == CrcValid(a, 8)

\* the i-th yield came while fewer than the registry's capacity had been kept
BelowCapacity(ys, i) ==
  Cardinality({j \in 1..(i - 1) : ValidRom(ys[j])}) < DS18B20_MAX_DEVICES

(* C2: after searchDevices() or begin() returns, an address the search       *)
(* yielded while the registry was below capacity is in the registry below    *)
(* the count iff its CRC-8 is valid; every entry below the count is          *)
(* CRC-valid, and the count returned is the number of CRC-valid addresses    *)
(* yielded (begin() reports whether that count is positive).                 *)
DiscoveryKeepsCrcValid ==
  call.op \in Discoveries =>
    LET ys == Yielded(call.log)
    IN /\ \A i \in 1..Len(ys) :
            BelowCapacity(ys, i) =>
              ((\E k \in 0..(_devices - 1) : _addresses[k] = ys[i]) <=> ValidRom(ys[i]))
       /\ \A k \in 0..(_devices - 1) : ValidRom(_addresses[k])
       /\ _devices = Cardinality({i \in 1..Len(ys) : BelowCapacity(ys, i) /\ ValidRom(ys[i])})
       /\ call.ret = (IF call.op = "searchDevices" THEN _devices ELSE _devices > 0)

\* a discovery over three sensors whose second ROM code arrived corrupted:
\* the other two were kept, the corrupted one was not counted
DiscoveryDroppedOne ==
  /\ call.op = "searchDevices"
  /\ Len(bus) = 3
  /\ call.noise = SearchFlip(2, 8, 0)
  /\ ~ValidRom(Yielded(call.log)[2])
  /\ call.ret = 2
  /\ _addresses[0] = bus[1]
  /\ _addresses[1] = bus[3]

-----------------------------------------------------------------------------
(* C3: a setResolution call with a resolution outside 9..12 returns failure  *)
(* without any bus operation (its trace is empty), and leaves the sensor's   *)
(* scratchpad, its EEPROM and the strong-pullup pin exactly as they were.    *)
BadResolutionTouchesNothing ==
  [][(call'.op = "setResolution" /\ call'.arg[1] \notin 9..12)
       => /\ call'.ret = FALSE
          /\ call'.log = <<>>
          /\ sp' = sp
          /\ ee' = ee
          /\ pullup' = pullup
          /\ _strongPullupPin' = _strongPullupPin]_vars

\* setResolution(addr, 13, ...) on the present sensor was refused with no bus traffic
BadResolutionRefused ==
  /\ call.op = "setResolution"
  /\ call.addr = SensorRom
  /\ Len(bus) = 1
  /\ call.arg[1] = 13
  /\ call.ret = FALSE
  /\ call.log = <<>>

(* C4: for every R in 9..12 and every prior scratchpad content, after a      *)
(* setResolution(addr, R, persist = false) that returned success, a          *)
(* getResolution(addr) on an uncorrupted bus returns R.                      *)
ResolutionRoundTrip ==
  (call.op = "setResolution" /\ call.ret = TRUE /\ call.arg[2] = FALSE)
    => /\ call.arg[1] \in 9..12
       /\ getResolution(World(NoNoise), call.addr).ret = call.arg[1]

\* a successful setResolution(addr, 10, false) on a sensor that was at 12 bits
ResolutionSetToTen ==
  /\ call.op = "setResolution"
  /\ call.ret = TRUE
  /\ call.arg = <<10, FALSE>>
  /\ ReadVals(call.log)[5] = 127
  /\ sp[5] = 63

(* C5: for every TH and TL in -128..127, after a setAlarms(addr, TH, TL)     *)
(* that returned success, a getAlarms(addr) on an uncorrupted bus returns    *)
(* success with exactly (TH, TL).                                            *)
AlarmsRoundTrip ==
  (call.op = "setAlarms" /\ call.ret = TRUE)
    => LET g == getAlarms(World(NoNoise), call.addr)
       IN /\ g.ret = TRUE
          /\ g.set = TRUE
          /\ g.th = call.arg[1]
          /\ g.tl = call.arg[2]

\* a successful setAlarms(addr, -128, 127): the registers hold 0x80 and 0x7F
AlarmsSetAtBoundaries ==
  /\ call.op = "setAlarms"
  /\ call.ret = TRUE
  /\ call.arg[1] = -128
  /\ call.arg[2] = 127
  /\ sp[3] = 128
  /\ sp[4] = 127

-----------------------------------------------------------------------------
\* the bytes the call wrote to the bus, in order
WriteVals(log) ==
  LET wr == SelectSeq(log, LAMBDA x : EvOp(x) = "write")
  IN [i \in 1..Len(wr) |-> EvVal(wr[i])]

(* C6: writeScratchpad sends 0x4E and the three bytes, then performs a Read  *)
(* Scratchpad transaction, and returns success iff the 9 bytes read back are *)
(* CRC-valid and their bytes 2, 3 and 4 equal th, tl and config; a readback  *)
(* that differs in one of those positions makes the write report failure.    *)
WriteVerifiedByReadback ==
  call.op = "writeScratchpad" =>
    LET rd == ReadVals(call.log)
        th == (call.arg[1] + 256) % 256
        tl == (call.arg[2] + 256) % 256
        config == call.arg[3]
    IN /\ Shape(call.log) = <<"reset", "select", "write", "write", "write", "write",
                              "reset", "select", "write",
                              "read", "read", "read", "read", "read",
                              "read", "read", "read", "read">>
       /\ WriteVals(call.log) = <<WRITE_SCRATCHPAD, th, tl, config, READ_SCRATCHPAD>>
       /\ (call.ret = TRUE) <=>
            (CrcValid(rd, 9) /\ rd[3] = th /\ rd[4] = tl /\ rd[5] = config)

\* the sensor kept the low five bits of its configuration register as 1, so a
\* write of config 0 read back CRC-valid as 0x1F and was reported failed
WriteEchoDiffers ==
  /\ call.op = "writeScratchpad"
  /\ call.addr = SensorRom
  /\ call.noise = NoNoise
  /\ call.arg[3] = 0
  /\ CrcValid(ReadVals(call.log), 9)
  /\ ReadVals(call.log)[3] = (call.arg[1] + 256) % 256
  /\ ReadVals(call.log)[4] = (call.arg[2] + 256) % 256
  /\ ReadVals(call.log)[5] = 31
  /\ call.ret = FALSE

-----------------------------------------------------------------------------
(* readTemperature reads 19 bytes: the frame of its getResolution, the byte  *)
(* of its power query, and the frame it decodes.                             *)

\* the frame getResolution read in a readTemperature call
ResolutionFrame(log) == SubSeq(ReadVals(log), 1, 9)

\* the byte the power query read in a readTemperature call
PowerByte(log) == ReadVals(log)[10]

\* the frame a readTemperature call decodes
FinalFrame(log) == SubSeq(ReadVals(log), 11, 19)

\* the levels the call drove on the strong-pullup pin, in order
PullupLevels(log) ==
  LET pu == Events(log, "pullup") IN [i \in 1..Len(pu) |-> EvVal(pu[i])]

\* the position of the last entry of the trace that is primitive e (0: none)
LastOf(log, e) ==
  LET at == {i \in 1..Len(log) : EvOp(log[i]) = e}
  IN IF at = {} THEN 0 ELSE CHOOSE i \in at : \A j \in at : j <= i

\* the position of the first entry of the trace that is primitive e (0: none)
FirstOf(log, e) ==
  LET at == {i \in 1..Len(log) : EvOp(log[i]) = e}
  IN IF at = {} THEN 0 ELSE CHOOSE i \in at : \A j \in at : i <= j

(* C7, as the specification states it: when the scratchpad read of a         *)
(* readTemperature call fails its CRC check, the call reports NaN and the    *)
(* strong-pullup pin is never asserted during the call.                      *)
NoPullupWhenCrcFails ==
  (call.op = "readTemperature" /\ ~CrcValid(FinalFrame(call.log), 9))
    => /\ call.ret.nan = TRUE
       /\ \A i \in 1..Len(call.log) :
            ~(EvOp(call.log[i]) = "pullup" /\ EvVal(call.log[i]) = 1)

(* C7, as the code behaves: readTemperature reports NaN iff the frame it     *)
(* decodes fails its CRC check. Whatever the CRC outcome, the strong pullup  *)
(* is asserted for the conversion wait exactly when a pin is configured and  *)
(* the call's power query did not report external power (its byte was not    *)
(* 1); it is asserted before the wait and released after it, before the      *)
(* transaction that reads the decoded frame, and it is off on return.        *)
PullupBeforeCrcOutcome ==
  call.op = "readTemperature" =>
    LET log == call.log
        assisted == _strongPullupPin >= 0 /\ PowerByte(log) # 1
    IN /\ Len(ReadVals(log)) = 19
       /\ (call.ret.nan = TRUE) <=> ~CrcValid(FinalFrame(log), 9)
       /\ PullupLevels(log) = IF assisted THEN <<1, 0>> ELSE <<>>
       /\ assisted =>
            /\ log[FirstOf(log, "pullup")] = Ev("pullup", 1)
            /\ FirstOf(log, "pullup") < LastOf(log, "delay")
            /\ LastOf(log, "delay") < LastOf(log, "pullup")
            /\ log[LastOf(log, "pullup")] = Ev("pullup", 0)
            /\ LastOf(log, "pullup") < LastOf(log, "reset")
       /\ pullup = FALSE

\* a readTemperature that reported NaN for a corrupted frame from a parasite
\* powered sensor, after it had asserted and released the strong pullup
NanAfterPullup ==
  /\ call.op = "readTemperature"
  /\ call.addr = SensorRom
  /\ power = "parasite"
  /\ _strongPullupPin >= 0
  /\ ~CrcValid(FinalFrame(call.log), 9)
  /\ call.ret.nan = TRUE
  /\ PullupLevels(call.log) = <<1, 0>>

(* C8: the conversion wait of readTemperature is 94 ms when the resolution   *)
(* it read is 9, 188 ms for 10, 375 ms for 11 and 750 ms for 12; it is       *)
(* 750 ms when the resolution could not be read (the frame of getResolution  *)
(* failed its CRC check).                                                    *)
ConversionWaitByResolution ==
  call.op = "readTemperature" =>
    LET f == ResolutionFrame(call.log)
        r == (f[5] \div 32) % 4
        waits == Events(call.log, "delay")
    IN /\ Len(waits) = 1
       /\ EvVal(waits[1]) =
            IF ~CrcValid(f, 9) THEN 750
            ELSE IF r = 0 THEN 94
            ELSE IF r = 1 THEN 188
            ELSE IF r = 2 THEN 375
            ELSE 750

\* a readTemperature on a sensor configured for 11 bits waited 375 ms
WaitedForElevenBits ==
  /\ call.op = "readTemperature"
  /\ call.addr = SensorRom
  /\ call.noise = NoNoise
  /\ ResolutionFrame(call.log)[5] = 95
  /\ Events(call.log, "delay") = <<Ev("delay", 375)>>

(* C9: getResolution returns 0 iff the frame it read fails the CRC check;    *)
(* for a CRC-valid frame it returns 9, 10, 11 or 12 for bits 6,5 of the      *)
(* configuration byte being 00, 01, 10 or 11, whatever the other six bits.   *)
ResolutionFromBits65 ==
  call.op = "getResolution" =>
    LET f == ReadVals(call.log)
    IN /\ Len(f) = 9
       /\ (call.ret = 0) <=> ~CrcValid(f, 9)
       /\ CrcValid(f, 9) => call.ret = 9 + ((f[5] \div 32) % 4)

\* a configuration byte 0xA0 (bit 7 set, low five bits clear) read as 10 bits
ResolutionWithOddReservedBits ==
  /\ call.op = "getResolution"
  /\ call.addr = SensorRom
  /\ call.noise = NoNoise
  /\ ReadVals(call.log)[5] = 160
  /\ call.ret = 10

(* C10: readPowerSupply sends 0xB4 and takes one read; an externally powered *)
(* sensor (it answers 1 in its read slots) is reported as external           *)
(* (externalPowered true, isParasitePower false) and a parasite powered one  *)
(* (it answers 0) as parasite.                                               *)
PowerReportedAsAnswered ==
  (call.op \in PowerQueries /\ call.addr = SensorRom /\ Len(bus) >= 1)
    => /\ Shape(call.log) = <<"reset", "select", "write", "read">>
       /\ WriteVals(call.log) = <<READ_POWER_SUPPLY>>
       /\ call.ret = IF call.op = "readPowerSupply" THEN TRUE ELSE (power = "parasite")
       /\ call.op = "readPowerSupply" => call.out = (power = "external")

-----------------------------------------------------------------------------
\* the rows of the address table the call wrote, in order
Stored(log) ==
  LET st == Events(log, "store") IN [i \in 1..Len(st) |-> EvVal(st[i])]

(* C11: in every reachable state the registry count is within 0..16, and     *)
(* every row a discovery writes in the address table is below 16; on a bus   *)
(* of more than 16 CRC-valid devices discovery stores rows 0..15, stops, and *)
(* returns 16 (begin: true) with nothing else reported.                      *)
RegistryBounded ==
  /\ _devices \in 0..DS18B20_MAX_DEVICES
  /\ DOMAIN _addresses = 0..(DS18B20_MAX_DEVICES - 1)
  /\ call.op \in Discoveries =>
       /\ \A i \in 1..Len(Stored(call.log)) :
            Stored(call.log)[i] \in 0..(DS18B20_MAX_DEVICES - 1)
       /\ (Len(bus) > DS18B20_MAX_DEVICES /\ call.noise = NoNoise) =>
            /\ Stored(call.log) = AllRows
            /\ Len(Yielded(call.log)) = DS18B20_MAX_DEVICES + 1
            /\ _devices = DS18B20_MAX_DEVICES
            /\ call.ret = IF call.op = "searchDevices" THEN DS18B20_MAX_DEVICES ELSE TRUE
            /\ \A k \in 0..(DS18B20_MAX_DEVICES - 1) : _addresses[k] = bus[k + 1]

\* searchDevices() on a bus of 17 sensors returned 16
DiscoveryStoppedAtCapacity ==
  /\ call.op = "searchDevices"
  /\ Len(bus) = DS18B20_MAX_DEVICES + 1
  /\ call.noise = NoNoise
  /\ call.ret = DS18B20_MAX_DEVICES
  /\ _addresses[DS18B20_MAX_DEVICES - 1] = bus[DS18B20_MAX_DEVICES]

-----------------------------------------------------------------------------
(* C12: the count searchDevices returns is the registry count, no step other *)
(* than a discovery changes the registry count or a stored address, and      *)
(* getAddress(index) succeeds iff index is below that count and then yields  *)
(* the address stored at that index; so between two discoveries getAddress   *)
(* gives the same answer whatever else was called.                           *)
RegistryOnlyChangedByDiscovery ==
  /\ [](/\ call.op = "searchDevices" => call.ret = _devices
        /\ call.op = "begin" => call.ret = (_devices > 0)
        /\ call.op = "getAddress" =>
             /\ (call.ret = TRUE) <=> (call.arg[1] < _devices)
             /\ call.ret = TRUE => call.out = _addresses[call.arg[1]]
             /\ call.log = <<>>)
  /\ [][call'.op \notin Discoveries => (_devices' = _devices /\ _addresses' = _addresses)]_vars

\* getAddress(0) gave the sensor's ROM code from the registry after the
\* sensor's alarm registers had been rewritten
AddressKeptAcrossWrites ==
  /\ call.op = "getAddress"
  /\ call.arg = <<0>>
  /\ call.ret = TRUE
  /\ call.out = SensorRom
  /\ _devices = 1
  /\ sp[3] = 128

-----------------------------------------------------------------------------
(* C13: with two or more devices in alarm condition on an undisturbed bus,   *)
(* alarmSearch succeeds with the CRC-valid address of a device in alarm, and *)
(* the next alarmSearch, with nothing changed in between, succeeds with the  *)
(* address of a different device in alarm.                                   *)
AlarmSearchGivesNextAlarming ==
  (call.op = "alarmSearch" /\ call.noise = NoNoise /\ Cardinality(alarms) >= 2)
    => LET nxt == alarmSearch(World(NoNoise))
       IN /\ call.ret = TRUE
          /\ ValidRom(call.out)
          /\ call.out \in alarms
          /\ nxt.ret = TRUE
          /\ ValidRom(nxt.addr)
          /\ nxt.addr \in alarms
          /\ nxt.addr # call.out

-----------------------------------------------------------------------------
\* the 16-bit register with high byte hi and low byte lo, as two's complement
Signed16(lo, hi) ==
  IF hi * 256 + lo >= 32768 THEN hi * 256 + lo - 65536 ELSE hi * 256 + lo

(* C14: the temperature is the signed 16-bit two's-complement value of       *)
(* scratchpad byte 1 (high) and byte 0 (low), in sixteenths of a degree:     *)
(* 0x0191 is 401 sixteenths and 0xFF5E is -162 sixteenths.                   *)
(* readRawTemperature succeeds iff the frame it read is CRC-valid, then      *)
(* gives that value, and on failure leaves its output unwritten;             *)
(* readTemperature gives the same value over 16 when it does not give NaN.   *)
RawDecodedAsSigned16 ==
  /\ call.op = "readRawTemperature" =>
       LET f == ReadVals(call.log)
       IN /\ Len(f) = 9
          /\ (call.ret = TRUE) <=> CrcValid(f, 9)
          /\ call.out.set = call.ret
          /\ call.ret = TRUE => call.out.raw = Signed16(f[1], f[2])
          /\ (call.ret = TRUE /\ f[1] = 145 /\ f[2] = 1) => call.out.raw = 401
          /\ (call.ret = TRUE /\ f[1] = 94 /\ f[2] = 255) => call.out.raw = -162
  /\ (call.op = "readTemperature" /\ call.ret.nan = FALSE) =>
       LET f == FinalFrame(call.log)
       IN /\ call.ret.x16 = Signed16(f[1], f[2])
          /\ (f[1] = 145 /\ f[2] = 1) => call.ret.x16 = 401
          /\ (f[1] = 94 /\ f[2] = 255) => call.ret.x16 = -162

\* readRawTemperature on a sensor at -10.125 degC gave -162
RawReadBelowZero ==
  /\ call.op = "readRawTemperature"
  /\ call.addr = SensorRom
  /\ sp[1] = 94 /\ sp[2] = 255
  /\ call.ret = TRUE
  /\ call.out = [set |-> TRUE, raw |-> -162]

-----------------------------------------------------------------------------
\* the operations that only report
Getters == {"getResolution", "getAlarms"}

\* the trace of one Read Scratchpad transaction
ReadTransaction ==
  <<"reset", "select", "write",
    "read", "read", "read", "read", "read", "read", "read", "read", "read">>

(* C15: getResolution and getAlarms issue one Read Scratchpad transaction    *)
(* and nothing else, and change neither the sensor (scratchpad, EEPROM,      *)
(* alarm flag) nor the driver (registry, pullup); so on an undisturbed bus   *)
(* the same getter called again at once gives the identical result.          *)
GettersIdempotent ==
  /\ [](call.op \in Getters =>
          /\ Shape(call.log) = ReadTransaction
          /\ WriteVals(call.log) = <<READ_SCRATCHPAD>>
          /\ call.noise = NoNoise =>
               /\ call.op = "getResolution" =>
                    getResolution(World(NoNoise), call.addr).ret = call.ret
               /\ call.op = "getAlarms" =>
                    LET again == getAlarms(World(NoNoise), call.addr)
                    IN /\ again.ret = call.ret
                       /\ again.set = call.out.set
                       /\ call.ret = TRUE => (again.th = call.out.th /\ again.tl = call.out.tl))
  /\ [][call'.op \in Getters =>
          /\ sp' = sp /\ ee' = ee /\ alarms' = alarms
          /\ _devices' = _devices /\ _addresses' = _addresses
          /\ pullup' = pullup /\ searchPos' = searchPos]_vars

\* getAlarms reported the thresholds -128 and 127 that a setAlarms had left
\* in the scratchpad but not in the EEPROM
GotAlarmsFromScratchpad ==
  /\ call.op = "getAlarms"
  /\ call.addr = SensorRom
  /\ call.noise = NoNoise
  /\ call.ret = TRUE
  /\ call.out = [set |-> TRUE, th |-> -128, tl |-> 127]
  /\ ee = PowerOnEE

-----------------------------------------------------------------------------
\* the primitives that put traffic on the bus
BusOps == {"reset", "select", "write", "read", "search"}

\* the commands a strong pullup is for
PoweredCommands == {CONVERT_T, COPY_SCRATCHPAD}

\* the positions of the trace where the strong-pullup pin is driven to level v
PullupAt(log, v) == {i \in 1..Len(log) : log[i] = Ev("pullup", v)}

\* the position of the last bus primitive before position i (0: none)
LastBusOpBefore(log, i) ==
  LET at == {j \in 1..(i - 1) : EvOp(log[j]) \in BusOps}
  IN IF at = {} THEN 0 ELSE CHOOSE j \in at : \A k \in at : k <= j

(* C16: whenever the strong-pullup pin is asserted, the bus primitive just   *)
(* before the assertion is the write of Convert T (0x44) or Copy Scratchpad  *)
(* (0x48), with no reset, select or other command in between, and no bus     *)
(* primitive is called from the assertion to the release.                    *)
PullupBracketsCommand ==
  call # Idle =>
    /\ \A i \in PullupAt(call.log, 1) :
         LET j == LastBusOpBefore(call.log, i)
         IN /\ j > 0
            /\ EvOp(call.log[j]) = "write"
            /\ EvVal(call.log[j]) \in PoweredCommands
    /\ \A i \in PullupAt(call.log, 1) :
         \E k \in PullupAt(call.log, 0) :
           /\ i < k
           /\ \A m \in (i + 1)..(k - 1) : EvOp(call.log[m]) \notin BusOps

-----------------------------------------------------------------------------
\* the positions of the trace where command byte b is written
WrittenAt(log, b) == {i \in 1..Len(log) : log[i] = Ev("write", b)}

(* C17: in every copyScratchpad call the Read Power Supply transaction (the  *)
(* write of 0xB4 and its read) is complete before Copy Scratchpad (0x48) is  *)
(* written, and the pullup is asserted for the delay iff that query did not  *)
(* report external power and a pullup pin is configured.                     *)
PowerCheckedBeforeCopy ==
  call.op = "copyScratchpad" =>
    /\ WrittenAt(call.log, READ_POWER_SUPPLY) # {}
    /\ WrittenAt(call.log, COPY_SCRATCHPAD) # {}
    /\ \A c \in WrittenAt(call.log, COPY_SCRATCHPAD) :
         /\ \A q \in WrittenAt(call.log, READ_POWER_SUPPLY) : q < c
         /\ LastOf(call.log, "read") < c
    /\ (PullupLevels(call.log) # <<>>)
         <=> (ReadVals(call.log)[1] # 1 /\ _strongPullupPin >= 0)

-----------------------------------------------------------------------------
\* the operations that run copyScratchpad: itself, and the setters when asked
\* to persist
CopyingOps == {"copyScratchpad", "setResolution", "setAlarms"}

(* C18: the strong pullup is de-asserted whenever a public operation has     *)
(* returned.  Each assertion is followed by a de-assertion inside the same   *)
(* call, happens only with a configured pin and directly after a Read Power  *)
(* Supply query of that call that did not report external power, and only    *)
(* inside readTemperature or copyScratchpad (the Copy Scratchpad command of  *)
(* the call precedes it); no other operation asserts the pin.                *)
PullupReleasedOnReturn ==
  /\ pullup = FALSE
  /\ call # Idle =>
       \A i \in PullupAt(call.log, 1) :
         /\ \E k \in PullupAt(call.log, 0) : i < k
         /\ _strongPullupPin >= 0
         /\ i > 2
         /\ EvOp(call.log[i - 1]) = "read"
         /\ EvVal(call.log[i - 1]) # 1
         /\ call.log[i - 2] = Ev("write", READ_POWER_SUPPLY)
         /\ \/ call.op = "readTemperature"
            \/ /\ call.op \in CopyingOps
               /\ \E c \in WrittenAt(call.log, COPY_SCRATCHPAD) : c < i

\* copyScratchpad asserted the pullup for a parasite-powered sensor and
\* released it before returning
CopyAssertedAndReleased ==
  /\ call # Idle
  /\ call.op = "copyScratchpad"
  /\ power = "parasite"
  /\ PullupLevels(call.log) = <<1, 0>>
  /\ pullup = FALSE

-----------------------------------------------------------------------------
Setters == {"setResolution", "setAlarms"}

\* the positions of the trace where a function command is written: the first
\* byte after a select
CommandAt(log) ==
  {i \in 2..Len(log) : EvOp(log[i]) = "write" /\ EvOp(log[i - 1]) = "select"}

\* where the call wrote Write Scratchpad
ScratchpadWrites(log) == {i \in CommandAt(log) : EvVal(log[i]) = WRITE_SCRATCHPAD}

\* what the getters report on the undisturbed bus
ResolutionOf(addr) == getResolution(World(NoNoise), addr).ret
AlarmsOf(addr) ==
  LET g == getAlarms(World(NoNoise), addr) IN <<g.ret, g.th, g.tl>>

(* C19: a successful setAlarms writes the configuration byte it read, and    *)
(* getResolution reports the same resolution before and after it; a         *)
(* successful setResolution writes the TH and TL it read, and getAlarms      *)
(* reports the same thresholds before and after it; a setter whose first     *)
(* scratchpad read fails writes no Write Scratchpad command.                 *)
SettersKeepOtherFields ==
  /\ [](call.op \in Setters =>
          /\ call.ret = TRUE =>
               \A c \in ScratchpadWrites(call.log) :
                 /\ call.op = "setAlarms" =>
                      EvVal(call.log[c + 3]) = ReadVals(call.log)[5]
                 /\ call.op = "setResolution" =>
                      /\ EvVal(call.log[c + 1]) = ReadVals(call.log)[3]
                      /\ EvVal(call.log[c + 2]) = ReadVals(call.log)[4]
          /\ call.ret = TRUE => ScratchpadWrites(call.log) # {}
          /\ ~CrcValid(ReadVals(call.log), 9) => ScratchpadWrites(call.log) = {})
  /\ [][\A a \in Targets :
          (call'.op \in Setters /\ call'.addr = a /\ call'.ret = TRUE) =>
            /\ call'.op = "setAlarms" => ResolutionOf(a)' = ResolutionOf(a)
            /\ call'.op = "setResolution" => AlarmsOf(a)' = AlarmsOf(a)]_vars

\* setAlarms succeeded on a sensor set to 9 bits, which it still reports
AlarmsSetAtNineBits ==
  /\ call # Idle
  /\ call.op = "setAlarms"
  /\ call.ret = TRUE
  /\ ReadVals(call.log)[5] = Or1F(rbits(9))
  /\ ResolutionOf(call.addr) = 9
  /\ AlarmsOf(call.addr) = <<TRUE, call.arg[1], call.arg[2]>>

-----------------------------------------------------------------------------
\* the function commands the driver writes
DeviceCommands ==
  {CONVERT_T, READ_SCRATCHPAD, WRITE_SCRATCHPAD, COPY_SCRATCHPAD, RECALL_E2,
   READ_POWER_SUPPLY}

\* the write at position i is one of the three data bytes that follow a
\* Write Scratchpad command
DataByteAt(log, i) ==
  \E c \in ScratchpadWrites(log) :
    /\ c < i /\ i <= c + 3
    /\ \A m \in c..i : EvOp(log[m]) = "write"

\* position i holds a command that directly follows a reset and then a select
\* of addr
FramedCommandAt(log, i, addr) ==
  /\ i > 2
  /\ EvVal(log[i]) \in DeviceCommands
  /\ log[i - 1] = EvA("select", addr)
  /\ log[i - 2] = Ev("reset", 0)

(* C20: in every call, each byte written to the bus is either a device       *)
(* command directly preceded by a reset and then a select of the address    *)
(* passed to the call, or one of the three data bytes of Write Scratchpad;   *)
(* every command value of the driver is framed this way, every select       *)
(* directly follows a reset and every reset is directly followed by a       *)
(* select, so transactions never overlap.                                    *)
CommandsFramedByResetSelect ==
  call # Idle =>
    \A i \in 1..Len(call.log) :
      /\ EvOp(call.log[i]) = "write" =>
           \/ FramedCommandAt(call.log, i, call.addr)
           \/ DataByteAt(call.log, i)
      /\ (EvOp(call.log[i]) = "write" /\ i \in CommandAt(call.log)) =>
           FramedCommandAt(call.log, i, call.addr)
      /\ EvOp(call.log[i]) = "select" =>
           (i > 1 /\ EvOp(call.log[i - 1]) = "reset")
      /\ EvOp(call.log[i]) = "reset" =>
           (i < Len(call.log) /\ EvOp(call.log[i + 1]) = "select")

\* a persisted setResolution ran its five transactions: read, write, read
\* back, copy, power query
FiveTransactionsInOneCall ==
  /\ call # Idle
  /\ call.op = "setResolution"
  /\ call.ret = TRUE
  /\ call.arg[2] = TRUE
  /\ Cardinality(CommandAt(call.log)) = 5
  /\ {EvVal(call.log[i]) : i \in CommandAt(call.log)}
       = {READ_SCRATCHPAD, WRITE_SCRATCHPAD, COPY_SCRATCHPAD, READ_POWER_SUPPLY}

=============================================================================
